---- MODULE Spec2Model ----
(***************************************************************************)
(* Model of backend/services/evacuation_guidance_service.py: one request   *)
(* to build_evacuation_guidance, stepped from one collaborator call to the *)
(* next.  A Python value that may be None is modelled as a sequence of     *)
(* length at most one: None is <<>> and a present value v is <<v>>.        *)
(* A text is modelled as the sequence of the fragments the code            *)
(* concatenates, each fragment being the exact string the code produces;   *)
(* a warning is such a text too: its fixed part, then the exception text.  *)
(* Distances are whole kilometres; a geographic position is represented by *)
(* the normalized initial bearing from the request point, in half degrees. *)
(***************************************************************************)
EXTENDS Integers, Sequences, FiniteSets, TLC

\* ---------------------------------------------------------------- bounds
MaxFires == 1
MaxPlaces == 3
MaxSteps == 4
MaxWarnings == 2
MaxManyPlaces == 7

\* ------------------------------------------------------ program constants
FullCircle2 == 720
MaxCandidates == 5
MaxResultSteps == 3
MaxTextSteps == 3

None == <<>>
Some(v) == <<v>>

\* ------------------------------------------- collaborator value universes
ExcMessages == {"timeout"}

AlertLevels == {"none", "low", "medium", "high", "critical"}

PlaceIds == {1, 2}
UnknownId == 3

Fire(i) == [distance_km |-> 5 * i]

FireLists == {[i \in 1..n |-> Fire(i)] : n \in 0..MaxFires}

PlaceName(i) == IF i % 3 = 0 THEN "" ELSE "Shelter " \o ToString(i)

\* the i-th place returned: ids repeat from the third place on
PlaceId(i) == ((i - 1) % Cardinality(PlaceIds)) + 1

Place(i, flagged) ==
    [id |-> PlaceId(i), name |-> PlaceName(i), bearing |-> (i * 225) % 720,
     distance_km |-> 4 * i, is_in_danger_zone |-> flagged]

PlaceLists ==
    UNION {{[i \in 1..n |-> Place(i, f[i])] : f \in [1..n -> BOOLEAN]} : n \in 0..MaxPlaces}

Step(i, hasText) == [instruction |-> IF hasText THEN "Step " \o ToString(i) ELSE ""]

Routes ==
    UNION {{[distance_km |-> 12, duration_minutes |-> 15,
             steps |-> [i \in 1..n |-> Step(i, f[i])]] :
                f \in [1..n -> BOOLEAN]} : n \in 0..MaxSteps}

CoverageEstimates == {None, Some(TRUE), Some(FALSE)}

\* ------------------------------------------------------------ pure helpers
Take(s, n) == SubSeq(s, 1, IF Len(s) < n THEN Len(s) ELSE n)

Fmt1(x) == ToString(x) \o ".0"
Fmt0(x) == ToString(x)

Directions ==
    <<"north", "northeast", "east", "southeast",
      "south", "southwest", "west", "northwest">>

\* variant: the quotient is truncated instead of rounded
RoundDiv45_Truncates(n2) == n2 \div 90

\* round(normalized / 45) with Python's round-half-to-even, on half degrees
RoundDiv45(n2) ==
    LET q == n2 \div 90
        r == n2 % 90
    IN  IF r < 45 THEN q
        ELSE IF r > 45 THEN q + 1
        ELSE IF q % 2 = 0 THEN q ELSE q + 1

bearing_to_cardinal(normalized2) ==
    Directions[(RoundDiv45(normalized2) % Len(Directions)) + 1]

\* ------------------------------------------------------- text composition
FallbackClause ==
    " A verified escape path is not available right now. If conditions worsen, move away from smoke and flames, keep low, and contact emergency services."

RECURSIVE Join(_, _)
Join(strs, sep) ==
    IF strs = <<>> THEN ""
    ELSE IF Len(strs) = 1 THEN strs[1]
    ELSE strs[1] \o sep \o Join(Tail(strs), sep)

BaseSentence(alert_level_text, closest) ==
    IF alert_level_text \in {"critical", "high"}
        THEN "Immediate evacuation is recommended."
    ELSE IF alert_level_text = "medium"
        THEN "Move carefully and prepare to leave the area."
    ELSE IF closest # None
        THEN "No immediate evacuation is required, but stay alert."
    ELSE "No nearby fire was detected from the current feed."

\* variant: the last warning is quoted instead of the first
build_instruction_text_LastWarning(alert_level_text, closest, warns) ==
    <<BaseSentence(alert_level_text, closest)>>
    \o (IF closest # None
           THEN <<" The nearest fire is about " \o Fmt1(closest[1]) \o " kilometers away.">>
           ELSE <<>>)
    \o (IF warns # <<>>
           THEN <<" Warning: ">> \o warns[Len(warns)] \o <<".">>
           ELSE <<>>)

build_instruction_text(alert_level_text, closest, warns) ==
    <<BaseSentence(alert_level_text, closest)>>
    \o (IF closest # None
           THEN <<" The nearest fire is about " \o Fmt1(closest[1]) \o " kilometers away.">>
           ELSE <<>>)
    \o (IF warns # <<>>
           THEN <<" Warning: ">> \o warns[1] \o <<".">>
           ELSE <<>>)

LocationPhrase(name, direction) ==
    "toward the " \o direction[1]
    \o (IF name # None /\ name # Some("") THEN " to reach " \o name[1] ELSE "")

\* variant: the route distance and duration are never used
RoutePhrase_IgnoresRoute(dest_km, route_km, route_min) ==
    " for about " \o Fmt1(dest_km[1]) \o " kilometers"

RoutePhrase(dest_km, route_km, route_min) ==
    IF route_km # None /\ route_min # None
        THEN " for about " \o Fmt1(route_km[1]) \o " kilometers, roughly "
             \o Fmt0(route_min[1]) \o " minutes"
        ELSE " for about " \o Fmt1(dest_km[1]) \o " kilometers"

\* variant: every step is listed, not the first three
StepsText_AllSteps(steps) ==
    IF steps # <<>>
        THEN <<" Follow these steps: " \o Join(steps, " Then ") \o ".">>
        ELSE <<>>

StepsText(steps) ==
    IF steps # <<>>
        THEN <<" Follow these steps: " \o Join(Take(steps, MaxTextSteps), " Then ") \o ".">>
        ELSE <<>>

\* variant: the steps clause is appended in the fallback branch too
build_guidance_text_FallbackWithSteps(name, direction, dest_km, route_km, route_min, steps, alert_text, closest, warns) ==
    LET intro == build_instruction_text(alert_text, closest, warns)
    IN  IF direction = None \/ direction = Some("") \/ dest_km = None
            THEN intro \o <<FallbackClause>> \o StepsText(steps)
            ELSE intro
                 \o <<" Head ", LocationPhrase(name, direction),
                      RoutePhrase(dest_km, route_km, route_min), ".">>
                 \o StepsText(steps)

\* variant: the fallback clause is left out when there is no destination
build_guidance_text_NoFallback(name, direction, dest_km, route_km, route_min, steps, alert_text, closest, warns) ==
    LET intro == build_instruction_text(alert_text, closest, warns)
    IN  IF direction = None \/ direction = Some("") \/ dest_km = None
            THEN intro
            ELSE intro
                 \o <<" Head ", LocationPhrase(name, direction),
                      RoutePhrase(dest_km, route_km, route_min), ".">>
                 \o StepsText(steps)

build_guidance_text(name, direction, dest_km, route_km, route_min, steps, alert_text, closest, warns) ==
    LET intro == build_instruction_text(alert_text, closest, warns)
    IN  IF direction = None \/ direction = Some("") \/ dest_km = None
            THEN intro \o <<FallbackClause>>
            ELSE intro
                 \o <<" Head ", LocationPhrase(name, direction),
                      RoutePhrase(dest_km, route_km, route_min), ".">>
                 \o StepsText(steps)

\* ---------------------------------------------------- collaborator outcomes
Raised(exc) == [raised |-> TRUE, exc |-> exc, value |-> <<>>]
Returned(v) == [raised |-> FALSE, exc |-> "", value |-> v]

Failures == {Raised(e) : e \in ExcMessages}

FetchFiresOutcomes == Failures \cup {Returned(fs) : fs \in FireLists}
\* create_danger_zones: one opaque zone token per fire
ZonesOf(fs) == [i \in DOMAIN fs |-> [zone_around_km |-> fs[i].distance_km]]
CreateZonesOutcomes(fs) == Failures \cup {Returned(ZonesOf(fs))}
\* determine_alert_level returns a member of the AlertLevel enumeration
AlertEnum(v) == [is_enum |-> TRUE, value |-> v]
AlertStr(v) == [is_enum |-> FALSE, value |-> v]
AlertOutcomes == Failures \cup {Returned(AlertEnum(v)) : v \in AlertLevels}
SafePlacesOutcomes == Failures \cup {Returned(pl) : pl \in PlaceLists}
CoverageOutcomes == Failures \cup {Returned(c) : c \in CoverageEstimates}

Call(fn, zones, dests, outcome) ==
    [fn |-> fn, danger_zones |-> zones, destinations |-> dests, outcome |-> outcome]

\* ------------------------------------------------------------------ stages
FirePrefix == "Could not fetch fire data: "
SafePlacesPrefix == "Could not fetch safe places: "
RoutePrefix == "Could not calculate route: "

FireWarning(exc) == <<FirePrefix, exc>>
SafePlacesWarning(exc) == <<SafePlacesPrefix, exc>>
CoverageWarning == <<"Cell coverage may be degraded in your area">>
RouteWarning(exc) == <<RoutePrefix, exc>>

\* variant: the except-branch resets the alert level only
RiskExcept_ResetsOnlyAlert(cur, exc) ==
    [fires |-> cur.fires, danger_zones |-> cur.danger_zones,
     closest_fire_km |-> cur.closest_fire_km, alert_level |-> AlertStr("none"),
     warnings |-> Append(cur.warnings, FireWarning(exc))]

\* variant: the except-branch forgets to reset danger_zones
RiskExcept_KeepsZones(cur, exc) ==
    [fires |-> <<>>, danger_zones |-> cur.danger_zones, closest_fire_km |-> None,
     alert_level |-> AlertStr("none"),
     warnings |-> Append(cur.warnings, FireWarning(exc))]

\* except-branch of the Risk Stage; cur holds the locals at the raise
RiskExcept(cur, exc) ==
    [fires |-> <<>>, danger_zones |-> <<>>, closest_fire_km |-> None,
     alert_level |-> AlertStr("none"),
     warnings |-> Append(cur.warnings, FireWarning(exc))]

ClosestFireKm(fs) == IF fs # <<>> THEN Some(fs[1].distance_km) ELSE None

\* variant: the danger-zone filter is missing
FilterSafePlaces_KeepsAll(pl) == pl

FilterSafePlaces(pl) == SelectSeq(pl, LAMBDA place : ~place.is_in_danger_zone)

\* variant: the stage reads what the Coverage Stage left in warnings
SafePlaceStage_SkipsWhenDegraded(warns, o) ==
    IF o.raised
        THEN [safe_places |-> <<>>, warnings |-> Append(warns, SafePlacesWarning(o.exc))]
        ELSE [safe_places |-> IF \E i \in DOMAIN warns : warns[i] = CoverageWarning
                                THEN <<>> ELSE FilterSafePlaces(o.value),
              warnings |-> warns]

SafePlaceStage(warns, o) ==
    IF o.raised
        THEN [safe_places |-> <<>>, warnings |-> Append(warns, SafePlacesWarning(o.exc))]
        ELSE [safe_places |-> FilterSafePlaces(o.value), warnings |-> warns]

HasCoverage(cov) == cov = Some(TRUE)

\* variant: the coverage warning replaces the list instead of extending it
CoverageStage_DropsEarlier(warns, cov) ==
    IF ~HasCoverage(cov) THEN <<CoverageWarning>> ELSE warns

CoverageStage(warns, cov) ==
    IF ~HasCoverage(cov) THEN Append(warns, CoverageWarning) ELSE warns

DefaultDestination(safe) == IF safe # <<>> THEN Some(safe[1]) ELSE None

\* variant: every safe place is submitted
Destinations_All(safe) ==
    [i \in 1..Len(safe) |->
        [pos |-> safe[i].bearing, name |-> safe[i].name, id |-> safe[i].id]]

Destinations(safe) ==
    [i \in 1..Len(Take(safe, MaxCandidates)) |->
        [pos |-> safe[i].bearing, name |-> safe[i].name, id |-> safe[i].id]]

\* variant: an id that matches no safe place leaves no destination
FindById_NoDefault(safe, id, default) ==
    LET hits == {i \in DOMAIN safe : safe[i].id = id}
    IN  IF hits = {} THEN None
        ELSE Some(safe[CHOOSE i \in hits : \A j \in hits : i <= j])

\* variant: the chosen id is never looked up
FindById_IgnoresId(safe, id, default) == default

\* The routing collaborator answers with a route and the destination it chose:
\* one of the submitted candidates, or one whose id no safe place carries.
UnknownDestination == [pos |-> 0, name |-> "Elsewhere", id |-> UnknownId]

RouteResults(dests) ==
    {<<r, d>> : r \in Routes, d \in {dests[i] : i \in DOMAIN dests} \cup {UnknownDestination}}

RoutingOutcomes(dests) ==
    Failures \cup {Returned(None)} \cup {Returned(rr) : rr \in RouteResults(dests)}

\* next((place for place in safe_places if place.id == id), default)
FindById(safe, id, default) ==
    LET hits == {i \in DOMAIN safe : safe[i].id = id}
    IN  IF hits = {} THEN default
        ELSE Some(safe[CHOOSE i \in hits : \A j \in hits : i <= j])

\* variant: an empty routing result is reported as a failure
RoutingStage_WarnsOnNoRoute(warns, safe, o) ==
    IF o.raised \/ o.value = None
        THEN [route |-> None, destination |-> DefaultDestination(safe),
              warnings |-> Append(warns, RouteWarning(o.exc))]
    ELSE [route |-> Some(o.value[1]),
          destination |-> FindById(safe, o.value[2].id, DefaultDestination(safe)),
          warnings |-> warns]

\* variant: a routing failure also discards the default destination
RoutingStage_FailureDropsDestination(warns, safe, o) ==
    IF o.raised
        THEN [route |-> None, destination |-> None,
              warnings |-> Append(warns, RouteWarning(o.exc))]
    ELSE IF o.value = None
        THEN [route |-> None, destination |-> DefaultDestination(safe),
              warnings |-> warns]
    ELSE [route |-> Some(o.value[1]),
          destination |-> FindById(safe, o.value[2].id, DefaultDestination(safe)),
          warnings |-> warns]

RoutingStage(warns, safe, o) ==
    IF o.raised
        THEN [route |-> None, destination |-> DefaultDestination(safe),
              warnings |-> Append(warns, RouteWarning(o.exc))]
    ELSE IF o.value = None
        THEN [route |-> None, destination |-> DefaultDestination(safe),
              warnings |-> warns]
    ELSE [route |-> Some(o.value[1]),
          destination |-> FindById(safe, o.value[2].id, DefaultDestination(safe)),
          warnings |-> warns]

\* variant: steps with an empty instruction are kept
RouteSteps_KeepsEmpty(rt) ==
    IF rt # None
        THEN [i \in DOMAIN rt[1].steps |-> rt[1].steps[i].instruction]
        ELSE <<>>

RouteSteps(rt) ==
    IF rt # None
        THEN LET kept == SelectSeq(rt[1].steps, LAMBDA step : step.instruction # "")
             IN  [i \in DOMAIN kept |-> kept[i].instruction]
        ELSE <<>>

AlertLevelText(a) == IF a.is_enum THEN a.value ELSE a.value

BuildResult(alert, closest, dest, rt, warns) ==
    LET destination_direction ==
            IF dest # None THEN Some(bearing_to_cardinal(dest[1].bearing)) ELSE None
        destination_distance_km ==
            IF dest # None THEN Some(dest[1].distance_km) ELSE None
        destination_name == IF dest # None THEN Some(dest[1].name) ELSE None
        route_distance_km == IF rt # None THEN Some(rt[1].distance_km) ELSE None
        route_duration_minutes == IF rt # None THEN Some(rt[1].duration_minutes) ELSE None
        route_steps == RouteSteps(rt)
    IN  [guidance_text |->
            build_guidance_text(destination_name, destination_direction,
                                destination_distance_km, route_distance_km,
                                route_duration_minutes, route_steps,
                                AlertLevelText(alert), closest, warns),
         alert_level |-> AlertLevelText(alert),
         closest_fire_km |-> closest,
         destination_name |-> destination_name,
         destination_direction |-> destination_direction,
         destination_distance_km |-> destination_distance_km,
         route_distance_km |-> route_distance_km,
         route_duration_minutes |-> route_duration_minutes,
         route_steps |-> Take(route_steps, MaxResultSteps),
         warnings |-> warns]

\* ------------------------------------------------------------------- state
VARIABLES
    pc,                 \* statement the request is at
    warnings, fires, danger_zones, closest_fire_km, alert_level,
    places, safe_places, coverage, result, route, destination,
    returned,           \* dict returned to the caller, None until the return
    calls,              \* collaborator calls made so far, with their outcomes
    args, out           \* arguments and value of a direct call of a helper function

vars == <<pc, warnings, fires, danger_zones, closest_fire_km, alert_level,
          places, safe_places, coverage, result, route, destination,
          returned, calls, args, out>>

riskLocals == <<fires, danger_zones, closest_fire_km, alert_level>>
helperCall == <<args, out>>
laterLocals == <<places, safe_places, coverage, result, route, destination, returned, helperCall>>

\* no local of build_evacuation_guidance is bound yet
NoRequest ==
    /\ warnings = <<>>
    /\ fires = <<>>
    /\ danger_zones = <<>>
    /\ closest_fire_km = None
    /\ alert_level = AlertStr("unbound")
    /\ places = <<>>
    /\ safe_places = <<>>
    /\ coverage = None
    /\ result = None
    /\ route = None
    /\ destination = None
    /\ returned = None
    /\ calls = <<>>

Init ==
    /\ pc = "fetch_fires"
    /\ NoRequest
    /\ args = None
    /\ out = None

CurRisk ==
    [fires |-> fires, danger_zones |-> danger_zones,
     closest_fire_km |-> closest_fire_km, alert_level |-> alert_level,
     warnings |-> warnings]

\* lines 99-104, then on to line 106
RiskFailed(exc) ==
    LET d == RiskExcept(CurRisk, exc)
    IN  /\ fires' = d.fires
        /\ danger_zones' = d.danger_zones
        /\ closest_fire_km' = d.closest_fire_km
        /\ alert_level' = d.alert_level
        /\ warnings' = d.warnings
        /\ pc' = "fetch_safe_places"

FetchFires ==
    /\ pc = "fetch_fires"
    /\ \E o \in FetchFiresOutcomes :
          /\ calls' = Append(calls, Call("fetch_fires", None, None, o))
          /\ IF o.raised
                THEN RiskFailed(o.exc)
                ELSE /\ fires' = o.value
                     /\ pc' = "create_danger_zones"
                     /\ UNCHANGED <<danger_zones, closest_fire_km, alert_level, warnings>>
    /\ UNCHANGED laterLocals

CreateDangerZones ==
    /\ pc = "create_danger_zones"
    /\ \E o \in CreateZonesOutcomes(fires) :
          /\ calls' = Append(calls, Call("create_danger_zones", None, None, o))
          /\ IF o.raised
                THEN RiskFailed(o.exc)
                ELSE /\ danger_zones' = o.value
                     /\ closest_fire_km' = ClosestFireKm(fires)
                     /\ pc' = "determine_alert_level"
                     /\ UNCHANGED <<fires, alert_level, warnings>>
    /\ UNCHANGED laterLocals

DetermineAlertLevel ==
    /\ pc = "determine_alert_level"
    /\ \E o \in AlertOutcomes :
          /\ calls' = Append(calls, Call("determine_alert_level", None, None, o))
          /\ IF o.raised
                THEN RiskFailed(o.exc)
                ELSE /\ alert_level' = o.value
                     /\ pc' = "fetch_safe_places"
                     /\ UNCHANGED <<fires, danger_zones, closest_fire_km, warnings>>
    /\ UNCHANGED laterLocals

FetchSafePlacesFrom(outcomes) ==
    /\ pc = "fetch_safe_places"
    /\ \E o \in outcomes :
          LET st == SafePlaceStage(warnings, o)
          IN  /\ calls' = Append(calls, Call("fetch_safe_places", Some(danger_zones), None, o))
              /\ places' = o.value
              /\ safe_places' = st.safe_places
              /\ warnings' = st.warnings
    /\ pc' = "estimate_coverage_simple"
    /\ UNCHANGED <<riskLocals, helperCall>>
    /\ UNCHANGED <<coverage, result, route, destination, returned>>

FetchSafePlaces == FetchSafePlacesFrom(SafePlacesOutcomes)

EstimateCoverage ==
    /\ pc = "estimate_coverage_simple"
    /\ \E o \in CoverageOutcomes :
          /\ calls' = Append(calls, Call("estimate_coverage_simple", Some(danger_zones), None, o))
          /\ IF o.raised
                THEN \* line 118 is outside any try: the exception leaves the function
                     /\ pc' = "raised"
                     /\ UNCHANGED <<coverage, warnings>>
                ELSE /\ coverage' = o.value
                     /\ warnings' = CoverageStage(warnings, o.value)
                     /\ pc' = "routing"
    /\ UNCHANGED <<riskLocals, helperCall>>
    /\ UNCHANGED <<places, safe_places, result, route, destination, returned>>

\* lines 122-125 with an empty safe_places: no call is made
RoutingSkipped ==
    /\ pc = "routing"
    /\ safe_places = <<>>
    /\ route' = None
    /\ destination' = DefaultDestination(safe_places)
    /\ pc' = "compose"
    /\ UNCHANGED <<riskLocals, helperCall>>
    /\ UNCHANGED <<warnings, places, safe_places, coverage, result, returned, calls>>

GetRoute ==
    /\ pc = "routing"
    /\ safe_places # <<>>
    /\ \E o \in RoutingOutcomes(Destinations(safe_places)) :
          LET st == RoutingStage(warnings, safe_places, o)
          IN  /\ calls' = Append(calls, Call("get_route_to_nearest_safe_place",
                                              Some(danger_zones),
                                              Some(Destinations(safe_places)), o))
              /\ result' = o.value
              /\ route' = st.route
              /\ destination' = st.destination
              /\ warnings' = st.warnings
    /\ pc' = "compose"
    /\ UNCHANGED <<riskLocals, helperCall>>
    /\ UNCHANGED <<places, safe_places, coverage, returned>>

\* lines 143-182
Compose ==
    /\ pc = "compose"
    /\ returned' = Some(BuildResult(alert_level, closest_fire_km, destination, route, warnings))
    /\ pc' = "done"
    /\ UNCHANGED <<riskLocals, helperCall>>
    /\ UNCHANGED <<warnings, places, safe_places, coverage, result, route, destination, calls>>

Next ==
    \/ FetchFires
    \/ CreateDangerZones
    \/ DetermineAlertLevel
    \/ FetchSafePlaces
    \/ EstimateCoverage
    \/ RoutingSkipped
    \/ GetRoute
    \/ Compose

Spec == Init /\ [][Next]_vars

\* ------------------------------------------ requests with many safe places
\* The directory returns up to MaxManyPlaces places, at most one of them flagged.
ManyPlaceLists ==
    UNION {{[i \in 1..n |-> Place(i, i = k)] : k \in 0..n} : n \in 0..MaxManyPlaces}

ManySafePlacesOutcomes == Failures \cup {Returned(pl) : pl \in ManyPlaceLists}

FetchManySafePlaces == FetchSafePlacesFrom(ManySafePlacesOutcomes)

NextManyPlaces ==
    \/ FetchFires
    \/ CreateDangerZones
    \/ DetermineAlertLevel
    \/ FetchManySafePlaces
    \/ EstimateCoverage
    \/ RoutingSkipped
    \/ GetRoute
    \/ Compose

SpecManyPlaces == Init /\ [][NextManyPlaces]_vars

\* ------------------------------------------- the helper functions on their own
\* Direct calls of _bearing_to_cardinal (from its normalized bearing on),
\* _build_instruction_text and _build_guidance_text with arguments of their
\* declared types, not only those build_evacuation_guidance passes.
WarningTexts ==
    {FireWarning(e) : e \in ExcMessages} \cup {SafePlacesWarning(e) : e \in ExcMessages}
    \cup {RouteWarning(e) : e \in ExcMessages} \cup {CoverageWarning}

WarningLists == UNION {[1..n -> WarningTexts] : n \in 0..MaxWarnings}

StepLists == {[i \in 1..n |-> "Step " \o ToString(i)] : n \in 0..MaxSteps}

InstructionArgs ==
    [alert_level : AlertLevels, closest_fire_km : {None, Some(0), Some(5)},
     warnings : WarningLists]

GuidanceArgs ==
    [destination_name : {None, Some(""), Some("Shelter")},
     destination_direction : {None} \cup {Some(Directions[i]) : i \in {1, 3}},
     destination_distance_km : {None, Some(8)},
     route_distance_km : {None, Some(12)},
     route_duration_minutes : {None, Some(15)},
     route_steps : StepLists,
     alert_level : AlertLevels,
     closest_fire_km : {None, Some(5)},
     warnings : {w \in WarningLists : Len(w) <= 1}]

BearingArgs == [normalized2 : 0..FullCircle2]

HelperInit ==
    /\ NoRequest
    /\ out = None
    /\ \/ pc = "call_bearing_to_cardinal" /\ args \in BearingArgs
       \/ pc = "call_build_instruction_text" /\ args \in InstructionArgs
       \/ pc = "call_build_guidance_text" /\ args \in GuidanceArgs

requestLocals ==
    <<warnings, fires, danger_zones, closest_fire_km, alert_level, places,
      safe_places, coverage, result, route, destination, returned, calls>>

CallBearingToCardinal ==
    /\ pc = "call_bearing_to_cardinal"
    /\ out' = Some(bearing_to_cardinal(args.normalized2))
    /\ pc' = "returned_bearing_to_cardinal"
    /\ UNCHANGED <<args, requestLocals>>

CallBuildInstructionText ==
    /\ pc = "call_build_instruction_text"
    /\ out' = Some(build_instruction_text(args.alert_level, args.closest_fire_km,
                                           args.warnings))
    /\ pc' = "returned_build_instruction_text"
    /\ UNCHANGED <<args, requestLocals>>

CallBuildGuidanceText ==
    /\ pc = "call_build_guidance_text"
    /\ out' = Some(build_guidance_text(args.destination_name, args.destination_direction,
                                        args.destination_distance_km,
                                        args.route_distance_km,
                                        args.route_duration_minutes, args.route_steps,
                                        args.alert_level, args.closest_fire_km,
                                        args.warnings))
    /\ pc' = "returned_build_guidance_text"
    /\ UNCHANGED <<args, requestLocals>>

HelperNext ==
    \/ CallBearingToCardinal
    \/ CallBuildInstructionText
    \/ CallBuildGuidanceText

SpecHelpers == HelperInit /\ [][HelperNext]_vars

\* ------------------------------------------------- vocabulary of the claims
Done == pc = "done"
Res == returned[1]

RiskFns == {"fetch_fires", "create_danger_zones", "determine_alert_level"}

CallsTo(fn) == {i \in DOMAIN calls : calls[i].fn = fn}
RaisedIn(fns) == \E i \in DOMAIN calls : calls[i].fn \in fns /\ calls[i].outcome.raised
OutcomeOf(fn) == calls[CHOOSE i \in CallsTo(fn) : TRUE].outcome

RiskRaised == RaisedIn(RiskFns)
RiskFinished == pc \notin {"fetch_fires", "create_danger_zones", "determine_alert_level"}
SafePlacesFinished == RiskFinished /\ pc # "fetch_safe_places"
RoutingFinished == pc \in {"compose", "done"}
RoutingCalled == CallsTo("get_route_to_nearest_safe_place") # {}
RoutingRaised == RaisedIn({"get_route_to_nearest_safe_place"})

BeginsWith(w, prefix) == w[1] = prefix
Count(warns, prefix) == Cardinality({i \in DOMAIN warns : BeginsWith(warns[i], prefix)})
Occurrences(seq, x) == Cardinality({i \in DOMAIN seq : seq[i] = x})
Contains(text, fragment) == \E i \in DOMAIN text : text[i] = fragment

\* C1: build_evacuation_guidance never raises to its caller, whatever
\* collaborator call fails.
C1_NeverRaises == pc # "raised"

\* C2: once any step of the Risk Stage has failed, fires and danger zones are
\* empty, closest_fire_km is null, the alert level is "none", the first warning
\* is the fire-data warning, every later stage is called with the empty
\* danger-zone set, and the returned record carries alert_level "none",
\* closest_fire_km null and that warning.
C2_RiskFailureDefaults ==
    RiskRaised =>
        /\ fires = <<>> /\ danger_zones = <<>> /\ closest_fire_km = None
        /\ AlertLevelText(alert_level) = "none"
        /\ warnings # <<>> /\ BeginsWith(warnings[1], FirePrefix)
        /\ \A i \in DOMAIN calls :
              calls[i].fn \notin RiskFns => calls[i].danger_zones = Some(<<>>)
        /\ Done =>
              /\ Res.alert_level = "none"
              /\ Res.closest_fire_km = None
              /\ Res.warnings # <<>> /\ BeginsWith(Res.warnings[1], FirePrefix)
              /\ Res.guidance_text[1] = "No nearby fire was detected from the current feed."
              /\ SubSeq(Res.guidance_text, 2, 5) = <<" Warning: ">> \o Res.warnings[1] \o <<".">>

C2_Witness ==
    /\ Done
    /\ \E i \in CallsTo("fetch_fires") : Len(calls[i].outcome.value) > 0
    /\ RaisedIn({"determine_alert_level"})
    /\ RoutingCalled

\* The warning each logged call gives rise to, in call order.
EventWarnings(c) ==
    IF c.outcome.raised
        THEN IF c.fn \in RiskFns THEN <<FireWarning(c.outcome.exc)>>
             ELSE IF c.fn = "fetch_safe_places" THEN <<SafePlacesWarning(c.outcome.exc)>>
             ELSE IF c.fn = "get_route_to_nearest_safe_place" THEN <<RouteWarning(c.outcome.exc)>>
             ELSE <<>>
        ELSE IF c.fn = "estimate_coverage_simple" /\ c.outcome.value # Some(TRUE)
             THEN <<CoverageWarning>>
             ELSE <<>>

RECURSIVE WarningsOfCalls(_)
WarningsOfCalls(cs) ==
    IF cs = <<>> THEN <<>> ELSE EventWarnings(Head(cs)) \o WarningsOfCalls(Tail(cs))

\* C3: the warnings list holds exactly one entry per warning-raising event
\* (Risk Stage failure, Safe-Place failure, estimate without coverage, Routing
\* failure), in the order the events occurred, and nothing else; the returned
\* record carries that list unchanged.
C3_WarningsAreTheEvents ==
    /\ pc # "raised" => warnings = WarningsOfCalls(calls)
    /\ Done => Res.warnings = WarningsOfCalls(calls)

C3_Witness ==
    /\ Done
    /\ Len(Res.warnings) = 3
    /\ BeginsWith(Res.warnings[1], FirePrefix)
    /\ Res.warnings[2] = CoverageWarning
    /\ BeginsWith(Res.warnings[3], RoutePrefix)

\* The record the request would return if the Coverage Stage ran before the
\* Safe-Place Stage, the collaborators answering as they did in this request.
RiskWarnings == SelectSeq(warnings, LAMBDA w : BeginsWith(w, FirePrefix))

SwappedResult ==
    LET w1 == CoverageStage(RiskWarnings, OutcomeOf("estimate_coverage_simple").value)
        sp == SafePlaceStage(w1, OutcomeOf("fetch_safe_places"))
        rt == IF sp.safe_places = <<>>
                THEN [route |-> None, destination |-> None, warnings |-> sp.warnings]
                ELSE RoutingStage(sp.warnings, sp.safe_places,
                                  OutcomeOf("get_route_to_nearest_safe_place"))
    IN  BuildResult(alert_level, closest_fire_km, rt.destination, rt.route, rt.warnings)

BothStagesWarned ==
    /\ RaisedIn({"fetch_safe_places"})
    /\ OutcomeOf("estimate_coverage_simple").value # Some(TRUE)

SameElements(a, b) ==
    /\ Len(a) = Len(b)
    /\ \A x \in {a[i] : i \in DOMAIN a} \cup {b[i] : i \in DOMAIN b} :
          Occurrences(a, x) = Occurrences(b, x)

OtherFields ==
    {"alert_level", "closest_fire_km", "destination_name", "destination_direction",
     "destination_distance_km", "route_distance_km", "route_duration_minutes",
     "route_steps"}

\* C4 (as stated): running the Safe-Place and Coverage stages in the other
\* order returns the same record for the same collaborator outcomes.
C4_OrderIndependent == Done => Res = SwappedResult

\* C4 (amended): in the other order every field other than warnings and
\* guidance_text is the same, warnings holds the same entries, guidance_text
\* is the same whenever the Risk Stage failed, and the whole record is the same
\* unless both stages add a warning.
C4_OrderIndependentUpToWarningOrder ==
    Done =>
        LET swapped == SwappedResult
        IN  /\ \A f \in OtherFields : Res[f] = swapped[f]
            /\ SameElements(Res.warnings, swapped.warnings)
            /\ RiskRaised => Res.guidance_text = swapped.guidance_text
            /\ ~BothStagesWarned => Res = swapped

C4_Witness ==
    /\ Done
    /\ BothStagesWarned
    /\ ~RiskRaised
    /\ Res.warnings = <<SafePlacesWarning("timeout"), CoverageWarning>>
    /\ SwappedResult.warnings = <<CoverageWarning, SafePlacesWarning("timeout")>>

\* C5: route_steps of the returned record has at most 3 entries, whatever the
\* length of the route, and none of them is an empty instruction.
C5_RouteStepsBounded ==
    Done =>
        /\ Len(Res.route_steps) <= 3
        /\ \A i \in DOMAIN Res.route_steps : Res.route_steps[i] # ""

C5_Witness ==
    /\ Done
    /\ route # None
    /\ Len(route[1].steps) > 3
    /\ route[1].steps[2].instruction = ""
    /\ Len(Res.route_steps) = 3

\* C6: the routing collaborator is called only with at least one candidate;
\* once the Routing Stage is over there is exactly one routing warning if the
\* call was made and failed and none otherwise; when the call was skipped for
\* lack of candidates there is no routing warning and no route.
C6_RoutingOnlyWithCandidates ==
    /\ \A i \in CallsTo("get_route_to_nearest_safe_place") :
          /\ safe_places # <<>>
          /\ calls[i].destinations # Some(<<>>)
    /\ RoutingFinished =>
          /\ Count(warnings, RoutePrefix) = (IF RoutingCalled /\ RoutingRaised THEN 1 ELSE 0)
          /\ ~RoutingCalled => route = None /\ Count(warnings, RoutePrefix) = 0
    /\ Done =>
          /\ Count(Res.warnings, RoutePrefix) = (IF RoutingCalled /\ RoutingRaised THEN 1 ELSE 0)
          /\ ~RoutingCalled =>
                /\ Res.route_distance_km = None
                /\ Res.route_duration_minutes = None
                /\ Res.route_steps = <<>>

C6_Witness ==
    /\ Done
    /\ places # <<>>
    /\ safe_places = <<>>
    /\ ~RoutingCalled
    /\ Res.warnings # <<>>

RoutingNamed(id) ==
    /\ RoutingCalled
    /\ ~RoutingRaised
    /\ OutcomeOf("get_route_to_nearest_safe_place").value # None
    /\ OutcomeOf("get_route_to_nearest_safe_place").value[2].id = id

IsFirstWithId(i, id) ==
    /\ i \in DOMAIN safe_places
    /\ safe_places[i].id = id
    /\ \A j \in 1..(i - 1) : safe_places[j].id # id

DescribesPlace(r, place) ==
    /\ r.destination_name = Some(place.name)
    /\ r.destination_distance_km = Some(place.distance_km)
    /\ r.destination_direction # None

\* C7: with at least one safe place, the final destination is the first safe
\* place of the filtered list, unless routing succeeded and named an id that a
\* safe place of the list carries; then it is the safe place found in the list
\* by that id, which need not be the first one.
C7_DestinationChoice ==
    (RoutingFinished /\ safe_places # <<>>) =>
        /\ \A id \in PlaceIds \cup {UnknownId}, i \in DOMAIN safe_places :
              (RoutingNamed(id) /\ IsFirstWithId(i, id)) =>
                  /\ destination = Some(safe_places[i])
                  /\ Done => DescribesPlace(Res, safe_places[i])
        /\ (~\E id \in PlaceIds \cup {UnknownId}, i \in DOMAIN safe_places :
                RoutingNamed(id) /\ IsFirstWithId(i, id)) =>
              /\ destination = Some(safe_places[1])
              /\ Done => DescribesPlace(Res, safe_places[1])

C7_Witness ==
    /\ Done
    /\ Len(safe_places) >= 2
    /\ RoutingNamed(safe_places[2].id)
    /\ safe_places[1].id # safe_places[2].id
    /\ Res.destination_name = Some(safe_places[2].name)

\* C8: when safe places exist and the routing call fails, the returned record
\* describes the first safe place of the list, with its straight-line distance
\* as destination_distance_km, has null route_distance_km and
\* route_duration_minutes, empty route_steps, and a routing-failure warning.
C8_RoutingFailureFallback ==
    (Done /\ RoutingCalled /\ RoutingRaised) =>
        /\ destination = Some(safe_places[1])
        /\ DescribesPlace(Res, safe_places[1])
        /\ Res.destination_direction = Some(bearing_to_cardinal(safe_places[1].bearing))
        /\ Res.route_distance_km = None
        /\ Res.route_duration_minutes = None
        /\ Res.route_steps = <<>>
        /\ Count(Res.warnings, RoutePrefix) >= 1

C8_Witness ==
    /\ Done
    /\ RoutingCalled /\ RoutingRaised
    /\ ~RiskRaised /\ fires = <<>>
    /\ Len(safe_places) >= 2
    /\ Res.destination_distance_km = Some(safe_places[1].distance_km)

Unflagged == {i \in DOMAIN places : ~places[i].is_in_danger_zone}

\* position in places of the k-th unflagged place
KthUnflagged(k) ==
    CHOOSE i \in Unflagged : Cardinality({j \in Unflagged : j <= i}) = k

AsDestination(place) == [pos |-> place.bearing, name |-> place.name, id |-> place.id]

\* C9: after the Safe-Place Stage, safe_places is the returned places without
\* the flagged ones, in the order returned; no flagged place is among the
\* destinations submitted to routing, nor is one the final destination; if the
\* lookup failed, safe_places is empty, exactly one safe-place warning was
\* added and the request went on to the next stage.
C9_SafePlaceFilter ==
    SafePlacesFinished =>
        /\ Len(safe_places) = Cardinality(Unflagged)
        /\ \A k \in DOMAIN safe_places : safe_places[k] = places[KthUnflagged(k)]
        /\ \A c \in CallsTo("get_route_to_nearest_safe_place") :
              /\ \A i \in DOMAIN places :
                    places[i].is_in_danger_zone =>
                        ~\E d \in DOMAIN calls[c].destinations[1] :
                            calls[c].destinations[1][d] = AsDestination(places[i])
              /\ \A d \in DOMAIN calls[c].destinations[1] :
                    calls[c].destinations[1][d] = AsDestination(places[KthUnflagged(d)])
        /\ destination # None =>
              /\ ~destination[1].is_in_danger_zone
              /\ \E i \in Unflagged : destination[1] = places[i]
        /\ (Done /\ Res.destination_name # None) =>
              \E i \in Unflagged : DescribesPlace(Res, places[i])
        /\ RaisedIn({"fetch_safe_places"}) =>
              /\ safe_places = <<>>
              /\ Count(warnings, SafePlacesPrefix) = 1
              /\ pc \in {"estimate_coverage_simple", "routing", "compose", "done", "raised"}
        /\ ~RaisedIn({"fetch_safe_places"}) => Count(warnings, SafePlacesPrefix) = 0

C9_Witness ==
    /\ Done
    /\ Len(places) >= 3
    /\ places[1].is_in_danger_zone
    /\ Len(safe_places) = 2
    /\ RoutingCalled
    /\ Res.destination_name # None

\* C10: when no safe place survives the Safe-Place Stage, the returned record
\* has null destination_name, destination_direction, destination_distance_km,
\* route_distance_km and route_duration_minutes, empty route_steps, and a
\* guidance_text ending with the fallback safety clause; if the Risk Stage
\* also failed, its warnings include the fire-data warning.
C10_NoSafePlaceFallback ==
    (Done /\ safe_places = <<>>) =>
        /\ Res.destination_name = None
        /\ Res.destination_direction = None
        /\ Res.destination_distance_km = None
        /\ Res.route_distance_km = None
        /\ Res.route_duration_minutes = None
        /\ Res.route_steps = <<>>
        /\ Contains(Res.guidance_text, FallbackClause)
        /\ Res.guidance_text[Len(Res.guidance_text)] = FallbackClause
        /\ ~Contains(Res.guidance_text, " Head ")
        /\ RiskRaised => Count(Res.warnings, FirePrefix) >= 1

C10_Witness ==
    /\ Done
    /\ RaisedIn({"fetch_fires"})
    /\ ~RaisedIn({"fetch_safe_places"})
    /\ places = <<>>
    /\ Res.destination_name = None

\* ------------------------------------------- claims on the helper functions
GuidanceReturned == pc = "returned_build_guidance_text"
InstructionReturned == pc = "returned_build_instruction_text"
BearingReturned == pc = "returned_bearing_to_cardinal"

Intro(a) == build_instruction_text(a.alert_level, a.closest_fire_km, a.warnings)

\* C11: given a null direction or a null destination distance, the guidance
\* text is the instruction text followed by the fallback clause and nothing
\* else: no "Head" phrase, no distance or duration, no steps, whatever route
\* distance, duration and steps were passed.
C11_NoRouteWithoutDestination ==
    (GuidanceReturned /\
        (args.destination_direction = None \/ args.destination_distance_km = None)) =>
        /\ out[1] = Intro(args) \o <<FallbackClause>>
        /\ ~Contains(out[1], " Head ")
        /\ \A i \in DOMAIN out[1] :
              out[1][i] \notin {" for about 12.0 kilometers, roughly 15 minutes",
                                " for about 8.0 kilometers",
                                " Follow these steps: Step 1."}

C11_Witness ==
    /\ GuidanceReturned
    /\ args.destination_direction = None
    /\ args.destination_distance_km # None
    /\ args.route_distance_km # None /\ args.route_duration_minutes # None
    /\ Len(args.route_steps) = 1
    /\ out[1][Len(out[1])] = FallbackClause

\* C12: the base sentence is chosen by first match (critical or high, then
\* medium, then a closest-fire distance present, else no fire detected); the
\* distance clause follows iff a closest-fire distance is present; then the
\* first warning of the list, and only that one, follows iff the list is not
\* empty.
C12_InstructionText ==
    InstructionReturned =>
        LET t == out[1]
            urgent == args.alert_level \in {"critical", "high"}
            medium == args.alert_level = "medium"
            known == args.closest_fire_km # None
            tail == SubSeq(t, IF known THEN 3 ELSE 2, Len(t))
        IN  /\ urgent => t[1] = "Immediate evacuation is recommended."
            /\ (~urgent /\ medium) => t[1] = "Move carefully and prepare to leave the area."
            /\ (~urgent /\ ~medium /\ known) =>
                  t[1] = "No immediate evacuation is required, but stay alert."
            /\ (~urgent /\ ~medium /\ ~known) =>
                  t[1] = "No nearby fire was detected from the current feed."
            /\ known =>
                  t[2] = " The nearest fire is about "
                         \o ToString(args.closest_fire_km[1]) \o ".0 kilometers away."
            /\ args.warnings = <<>> => tail = <<>>
            /\ args.warnings # <<>> => tail = <<" Warning: ">> \o args.warnings[1] \o <<".">>

C12_Witness ==
    /\ InstructionReturned
    /\ args.alert_level = "medium"
    /\ args.closest_fire_km # None
    /\ Len(args.warnings) = 2
    /\ args.warnings[1] # args.warnings[2]
    /\ Len(out[1]) = 5

\* C16: with a direction and a destination distance, the distance clause gives
\* the route distance and duration iff both are non-null and the straight-line
\* destination distance alone otherwise; the steps clause lists the first 3
\* steps at most and is absent when there are no steps.
C16_DistanceAndSteps ==
    (GuidanceReturned /\ args.destination_direction # None
                      /\ args.destination_distance_km # None) =>
        LET body == SubSeq(out[1], Len(Intro(args)) + 1, Len(out[1]))
            n == IF Len(args.route_steps) < 3 THEN Len(args.route_steps) ELSE 3
        IN  /\ SubSeq(out[1], 1, Len(Intro(args))) = Intro(args)
            /\ body[1] = " Head "
            /\ body[3] =
                  IF args.route_distance_km # None /\ args.route_duration_minutes # None
                    THEN " for about " \o ToString(args.route_distance_km[1])
                         \o ".0 kilometers, roughly "
                         \o ToString(args.route_duration_minutes[1]) \o " minutes"
                    ELSE " for about " \o ToString(args.destination_distance_km[1])
                         \o ".0 kilometers"
            /\ body[4] = "."
            /\ args.route_steps = <<>> => Len(body) = 4
            /\ args.route_steps # <<>> =>
                  /\ Len(body) = 5
                  /\ body[5] = " Follow these steps: "
                               \o Join(SubSeq(args.route_steps, 1, n), " Then ") \o "."

C16_Witness ==
    /\ GuidanceReturned
    /\ args.destination_direction # None /\ args.destination_distance_km # None
    /\ args.route_distance_km # None /\ args.route_duration_minutes # None
    /\ Len(args.route_steps) = 4
    /\ Len(out[1]) >= 5
    /\ out[1][Len(out[1])] = " Follow these steps: Step 1 Then Step 2 Then Step 3."

\* C17: for a normalized bearing in [0, 360] the direction returned is one of
\* the 8 of the clockwise list from north, it is the one at index k mod 8 for a
\* multiple 45k of 45 degrees nearest to the bearing, bearings of 0, 90, 180 and
\* 270 degrees give north, east, south and west, and bearings from 337.5
\* degrees on wrap back to north.
C17_CardinalIndex ==
    BearingReturned =>
        LET n2 == args.normalized2
            d == out[1]
        IN  /\ \E i \in 1..8 : d = Directions[i]
            /\ \E k \in 0..8 :
                  /\ n2 - 90 * k <= 45 /\ 90 * k - n2 <= 45
                  /\ d = Directions[(k % 8) + 1]
            /\ n2 = 0 => d = "north"
            /\ n2 = 180 => d = "east"
            /\ n2 = 360 => d = "south"
            /\ n2 = 540 => d = "west"
            /\ n2 >= 675 => d = "north"

C17_Witness ==
    /\ BearingReturned
    /\ args.normalized2 = 700
    /\ out[1] = "north"

\* ------------------------------------------------ further claims on requests
Collaborators ==
    {"fetch_fires", "fetch_safe_places", "estimate_coverage_simple",
     "get_route_to_nearest_safe_place"}

LaterFns ==
    {"fetch_safe_places", "estimate_coverage_simple", "get_route_to_nearest_safe_place"}

\* C13: within a request each collaborator is called at most once, and after
\* a failed call the request goes on to the next stage instead of repeating
\* the call or stopping.
C13_NoRetryAndProceeds ==
    /\ \A fn \in Collaborators : Cardinality(CallsTo(fn)) <= 1
    /\ \A i \in DOMAIN calls :
          (calls[i].fn \in Collaborators /\ calls[i].outcome.raised) =>
              /\ pc # "raised"
              /\ calls[i].fn = "fetch_fires" =>
                    pc \in {"fetch_safe_places", "estimate_coverage_simple", "routing",
                            "compose", "done"}
              /\ calls[i].fn = "fetch_safe_places" =>
                    pc \in {"estimate_coverage_simple", "routing", "compose", "done"}
              /\ calls[i].fn = "estimate_coverage_simple" =>
                    pc \in {"routing", "compose", "done"}
              /\ calls[i].fn = "get_route_to_nearest_safe_place" =>
                    pc \in {"compose", "done"}

\* the danger-zone value the Risk Stage ended with
RiskZones ==
    IF RiskRaised THEN <<>> ELSE OutcomeOf("create_danger_zones").value

RiskEndedBefore(i) ==
    \E j \in 1..(i - 1) :
        /\ calls[j].fn \in RiskFns
        /\ calls[j].outcome.raised \/ calls[j].fn = "determine_alert_level"

\* C14: fetch_safe_places, estimate_coverage_simple and
\* get_route_to_nearest_safe_place are called only after the Risk Stage has
\* ended, routing only after the Safe-Place Stage, and each receives the
\* danger-zone value the Risk Stage ended with (the output of
\* create_danger_zones on success, empty on failure), which no later stage
\* changes.
C14_StagesShareRiskZones ==
    /\ \A i \in DOMAIN calls :
          calls[i].fn \in LaterFns =>
              /\ RiskEndedBefore(i)
              /\ \A j \in i..Len(calls) : calls[j].fn \notin RiskFns
              /\ calls[i].danger_zones = Some(RiskZones)
              /\ calls[i].fn = "get_route_to_nearest_safe_place" =>
                    \E j \in 1..(i - 1) :
                        calls[j].fn = "fetch_safe_places" /\ SafePlacesFinished
              /\ calls[i].fn = "estimate_coverage_simple" =>
                    \E j \in 1..(i - 1) : calls[j].fn = "fetch_safe_places"
    /\ RiskFinished => danger_zones = RiskZones

C14_Witness ==
    /\ Done
    /\ ~RiskRaised
    /\ danger_zones # <<>>
    /\ RoutingCalled
    /\ \A i \in DOMAIN calls :
          calls[i].fn \in LaterFns => calls[i].danger_zones = Some(danger_zones)

\* C15: the candidates handed to the routing collaborator are the first
\* min(5, n) places of the filtered list of length n, in the same order; a
\* place at position 6 or later is never submitted.
C15_FirstFiveCandidates ==
    \A c \in CallsTo("get_route_to_nearest_safe_place") :
        LET d == calls[c].destinations[1]
            n == Len(safe_places)
        IN  /\ Len(d) = (IF n < 5 THEN n ELSE 5)
            /\ \A i \in DOMAIN d : d[i] = AsDestination(safe_places[i])
            /\ \A j \in 6..n : \A i \in DOMAIN d : d[i] # AsDestination(safe_places[j])

C15_Witness ==
    /\ Done
    /\ Len(places) > Len(safe_places)
    /\ Len(safe_places) >= 6
    /\ \E c \in CallsTo("get_route_to_nearest_safe_place") :
          Len(calls[c].destinations[1]) = 5

\* C18: whenever the returned record carries a route, its destination is the
\* place the route leads to: the submitted candidate the routing collaborator
\* chose.
C18_DestinationIsRouteTarget ==
    (Done /\ Res.route_distance_km # None) =>
        LET chosen == OutcomeOf("get_route_to_nearest_safe_place").value[2]
        IN  /\ destination # None
            /\ AsDestination(destination[1]) = chosen
            /\ Res.destination_name = Some(chosen.name)

\* C19: in the returned record, guidance_text contains the fallback clause iff
\* destination_direction or destination_distance_km is null; otherwise it
\* names destination_direction and its steps clause lists exactly the entries
\* of route_steps (no steps clause when route_steps is empty).
C19_TextAgreesWithFields ==
    Done =>
        LET t == Res.guidance_text
            intro == build_instruction_text(Res.alert_level, Res.closest_fire_km,
                                            Res.warnings)
            body == SubSeq(t, Len(intro) + 1, Len(t))
            missing == Res.destination_direction = None
                       \/ Res.destination_distance_km = None
        IN  /\ Contains(t, FallbackClause) <=> missing
            /\ ~missing =>
                  /\ body[1] = " Head "
                  /\ body[2] \in
                        {"toward the " \o Res.destination_direction[1],
                         "toward the " \o Res.destination_direction[1]
                            \o " to reach " \o Res.destination_name[1]}
                  /\ Res.route_steps = <<>> => Len(body) = 4
                  /\ Res.route_steps # <<>> =>
                        /\ Len(body) = 5
                        /\ body[5] = " Follow these steps: "
                                     \o Join(Res.route_steps, " Then ") \o "."

C19_Witness ==
    /\ Done
    /\ route # None
    /\ Len(RouteSteps(route)) = 4
    /\ Len(Res.route_steps) = 3
    /\ Res.destination_direction # None

\* C20: in the returned record, a non-null route_distance_km or
\* route_duration_minutes or a non-empty route_steps implies a non-null
\* destination_direction, and destination_direction is non-null exactly when a
\* destination was selected.
C20_RouteImpliesDestination ==
    Done =>
        /\ (Res.route_distance_km # None \/ Res.route_duration_minutes # None
                \/ Res.route_steps # <<>>) => Res.destination_direction # None
        /\ Res.destination_direction # None <=> destination # None
        /\ destination # None <=> safe_places # <<>>

C20_Witness ==
    /\ Done
    /\ Res.route_distance_km # None
    /\ Res.route_steps # <<>>
    /\ OutcomeOf("get_route_to_nearest_safe_place").value[2].id = UnknownId
    /\ Res.destination_direction # None

====
